---- MODULE Spec2Model ----
(***************************************************************************)
(* mcp-neovim-server: the MCP dispatch shim of src/index.ts in front of    *)
(* the editor bridge (NeovimManager, ./neovim.js) and the editor process.  *)
(*                                                                         *)
(* src/index.ts is modelled from its code.  ./neovim.js is not among the   *)
(* source files: the bridge operations (getConnection, getBufferContents, *)
(* sendCommand, getNeovimStatus, editLines) and the editor's primitives    *)
(* are modelled from spec.md sections 3 to 7.                              *)
(*                                                                         *)
(* Text is a sequence of one-character strings, so that splitting,         *)
(* rendering and prefix tests are computed and not assumed.                *)
(***************************************************************************)
EXTENDS Integers, Sequences, FiniteSets, TLC

\* ------------------------------------------------------------------ bounds

\* Most lines the editor buffer holds (edits that would pass it are not issued).
MaxBuf == 3

\* Most characters of an edit request's "lines" payload.
MaxPayload == 2

\* ------------------------------------------------------------------- text

NL == "\n"

Chars == {"a", NL}

Text(n) == UNION {[1..k -> Chars] : k \in 0..n}

\* A line of the editor buffer holds no line separator.
LineText(n) == UNION {[1..k -> Chars \ {NL}] : k \in 0..n}

DigitChar == <<"0", "1", "2", "3", "4", "5", "6", "7", "8", "9">>

\* `${lineNum}` of a non-negative integer: its decimal digits.
RECURSIVE Digits(_)
Digits(n) ==
  IF n < 10 THEN <<DigitChar[n + 1]>>
  ELSE Digits(n \div 10) \o <<DigitChar[(n % 10) + 1]>>

\* String.prototype.startsWith
StartsWith(s, p) == Len(s) >= Len(p) /\ SubSeq(s, 1, Len(p)) = p

\* Array.prototype.join('\n') of a sequence of texts
RECURSIVE JoinNL(_)
JoinNL(parts) ==
  IF Len(parts) = 0 THEN <<>>
  ELSE IF Len(parts) = 1 THEN parts[1]
  ELSE parts[1] \o <<NL>> \o JoinNL(Tail(parts))

\* The text before the first line separator of s (all of s when it has none).
RECURSIVE FirstSegment(_)
FirstSegment(s) ==
  IF Len(s) = 0 \/ Head(s) = NL THEN <<>>
  ELSE <<Head(s)>> \o FirstSegment(Tail(s))

\* The sequence of segments of s between its line separators.
RECURSIVE Segments(_)
Segments(s) ==
  LET first == FirstSegment(s)
  IN  IF Len(first) = Len(s) THEN <<first>>
      ELSE <<first>> \o Segments(SubSeq(s, Len(first) + 2, Len(s)))

\* ------------------------------------------------- the editor (spec.md 2, 6)

\* The editor keeps a buffer of at least one line: removing every line leaves
\* one empty line (spec.md 4.2, "a buffer is never zero-length").
NeverZeroLength(ls) == IF Len(ls) = 0 THEN << <<>> >> ELSE ls

\* A faulty set primitive that applies a payload line by line and stops
\* after the first: what a sequence of single-line edits shows on the way.
EditorSetLinesLineByLine(buf, first, last, repl) ==
  NeverZeroLength(SubSeq(buf, 1, first)
                  \o (IF Len(repl) = 0 THEN <<>> ELSE <<repl[1]>>)
                  \o SubSeq(buf, last + 1, Len(buf)))

\* The line-range set primitive: lines first+1 .. last are replaced by repl,
\* in one change.
EditorSetLines(buf, first, last, repl) ==
  NeverZeroLength(SubSeq(buf, 1, first) \o repl \o SubSeq(buf, last + 1, Len(buf)))

\* The line-range get primitive over the full extent of the buffer.
EditorGetLines(buf) == SubSeq(buf, 1, Len(buf))

\* What feeding literal input can do to the buffer: the command language is
\* the editor's own, so any of a line deleted, a line opened, or nothing.
EditorReactions(buf) ==
  {buf}
  \cup {NeverZeroLength(SubSeq(buf, 1, i - 1) \o SubSeq(buf, i + 1, Len(buf))) :
          i \in 1..Len(buf)}
  \cup {SubSeq(buf, 1, i) \o << <<"a">> >> \o SubSeq(buf, i + 1, Len(buf)) :
          i \in {j \in 0..Len(buf) : Len(buf) < MaxBuf}}

\* ------------------------------------- the bridge, NeovimManager (spec.md 4)

\* 4.4 input normalization: an empty payload is an empty sequence of lines.
SplitLines(lines) == IF Len(lines) = 0 THEN <<>> ELSE Segments(lines)

\* 4.4 validation of startLine against the buffer's last line.
ValidRange(startLine, mode, lastLine) ==
  /\ startLine >= 1
  /\ mode = "insert" => startLine <= lastLine + 1
  /\ mode = "replace" => startLine <= lastLine

\* 4.4 the range of the single set-range call: insert replaces no line,
\* replace every line from startLine through the last one.
EditRange(startLine, mode, lastLine) ==
  [first |-> startLine - 1,
   last  |-> IF mode = "insert" THEN startLine - 1 ELSE lastLine]

\* 4.4 the confirmation string names the mode and the start of the range.
EditConfirmation(startLine, mode) == <<mode, " ">> \o Digits(startLine)

\* A faulty snapshot, numbered from 0 as the editor's own line indices are.
getBufferContentsZeroBased(ls) ==
  IF Len(ls) = 0 THEN << <<0, <<>> >> >>
  ELSE [i \in 1..Len(ls) |-> <<i - 1, ls[i]>>]

\* 4.2 the snapshot: the entries (line number, text) in ascending order; an
\* empty buffer is one empty line.
getBufferContents(ls) ==
  IF Len(ls) = 0 THEN << <<1, <<>> >> >>
  ELSE [i \in 1..Len(ls) |-> <<i, ls[i]>>]

\* 4.3 the textual status summary sendCommand returns.  Of the editor's
\* state only the buffer is modelled, so the summary and the status report
\* name the buffer's extent.
CommandSummary(buf) == <<"lines", ":", " ">> \o Digits(Len(buf))

\* 4.5 the status report.
getNeovimStatus(buf) == [fileInfo |-> [lines |-> Len(buf)]]

\* ------------------------------------------------ the dispatcher, index.ts

NvimScheme == <<"n", "v", "i", "m", ":", "/", "/">>

Thrown(message) == [error |-> message, text |-> <<>>]

Returned(text) == [error |-> "", text |-> text]

\* A faulty switch: case "vim_command" falls through to case "vim_status".
ToolRouteFallThrough(name) ==
  CASE name = "vim_buffer"  -> "getBufferContents"
    [] name = "vim_command" -> "getNeovimStatus"
    [] name = "vim_status"  -> "getNeovimStatus"
    [] name = "vim_edit"    -> "editLines"
    [] OTHER                -> "Unknown tool"

\* CallToolRequestSchema handler: the bridge operation the tool name selects.
ToolRoute(name) ==
  CASE name = "vim_buffer"  -> "getBufferContents"
    [] name = "vim_command" -> "sendCommand"
    [] name = "vim_status"  -> "getNeovimStatus"
    [] name = "vim_edit"    -> "editLines"
    [] OTHER                -> "Unknown tool"

\* ReadResourceRequestSchema handler: the uri test before the bridge is used.
ResourceRoute(uri) ==
  IF ~StartsWith(uri, NvimScheme) THEN "Invalid resource URI"
  ELSE "getBufferContents"

\* Faulty argument passing: startLine taken as zero-based, startLine taken
\* as a count, the mode dropped.
EditArgsZeroBased(arguments) ==
  [startLine |-> arguments.startLine - 1,
   mode      |-> arguments.mode,
   lines     |-> arguments.lines]

EditArgsShifted(arguments) ==
  [startLine |-> arguments.startLine + 1,
   mode      |-> arguments.mode,
   lines     |-> arguments.lines]

EditArgsInsertOnly(arguments) ==
  [startLine |-> arguments.startLine,
   mode      |-> "insert",
   lines     |-> arguments.lines]

\* case "vim_edit": the arguments handed to editLines.
EditArgs(arguments) ==
  [startLine |-> arguments.startLine,
   mode      |-> arguments.mode,
   lines     |-> arguments.lines]

\* case "vim_command": the argument handed to handleCommand.
CommandArg(arguments) == arguments.command

\* A faulty rendering: no space after the colon.
ResourceTextNoSpace(bufferContents) ==
  JoinNL([i \in 1..Len(bufferContents) |->
            Digits(bufferContents[i][1]) \o <<":">> \o bufferContents[i][2]])

\* ReadResource: the text of the resource's contents.
ResourceText(bufferContents) ==
  JoinNL([i \in 1..Len(bufferContents) |->
            Digits(bufferContents[i][1]) \o <<":", " ">> \o bufferContents[i][2]])

\* handleBuffer: the text of the tool result.
BufferText(bufferContents) ==
  JoinNL([i \in 1..Len(bufferContents) |->
            Digits(bufferContents[i][1]) \o <<":", " ">> \o bufferContents[i][2]])

\* JSON.stringify(status)
StringifyStatus(status) ==
  <<"{", "\"fileInfo\"", ":", "{", "\"lines\"", ":">>
  \o Digits(status.fileInfo.lines) \o <<"}", "}">>

\* Faulty handlers: one that answers with the text of a snapshot it kept,
\* one that catches the bridge's rejection and answers with an empty text.
handleBufferStale(error, bufferContents) ==
  IF error # "" THEN Thrown(error)
  ELSE Returned(JoinNL(<< <<"1", ":", " ">> >>))

handleCommandSwallow(error, result) ==
  IF error # "" THEN Returned(<<>>) ELSE Returned(result)

\* Each handler awaits the bridge and wraps its result; none catches, so a
\* rejection of the bridge's promise is the handler's.
ReadResource(error, bufferContents) ==
  IF error # "" THEN Thrown(error) ELSE Returned(ResourceText(bufferContents))

handleBuffer(error, bufferContents) ==
  IF error # "" THEN Thrown(error) ELSE Returned(BufferText(bufferContents))

handleCommand(error, result) ==
  IF error # "" THEN Thrown(error) ELSE Returned(result)

handleStatus(error, status) ==
  IF error # "" THEN Thrown(error) ELSE Returned(StringifyStatus(status))

handleEdit(error, result) ==
  IF error # "" THEN Thrown(error) ELSE Returned(result)

\* ------------------------------------------------------------------ state

VARIABLES
  buffer,      \* the editor's active buffer: its lines, first to last
  reachable,   \* whether the editor's control channel can be reached
  conn,        \* the bridge's connection: "none", "up", "failed" or "broken"
  attempts,    \* connection attempts made so far
  handles,     \* connection handles created so far
  slots,       \* the requests in flight, one per slot of the host
  prevRead,    \* the last delivered buffer read not followed by a mutation
  before       \* the buffer when the latest request was dispatched (the buffer
               \* itself once a response is delivered)

vars ==
  <<buffer, reachable, conn, attempts, handles, slots, prevRead, before>>

Slots == {"r1", "r2"}

ToolNames == {"vim_buffer", "vim_command", "vim_status", "vim_edit", "vim_other"}

Commands == {"dd", "ia<esc>"}

EditModes == {"insert", "replace"}

StartLines == 0..(MaxBuf + 2)

Uris ==
  { NvimScheme \o <<"s">>,
    NvimScheme,
    <<"n", "v", "i", "m", ":", "/", "s">>,
    <<"f", "i", "l", "e", ":", "/", "/", "s">>,
    <<>> }

NoArguments == [startLine |-> 0, mode |-> "insert", lines |-> <<>>, command |-> ""]

Request(kind, name, uri, arguments) ==
  [kind |-> kind, name |-> name, uri |-> uri, arguments |-> arguments]

Requests ==
  {Request("tool", n, <<>>, NoArguments) : n \in ToolNames \ {"vim_command", "vim_edit"}}
  \cup {Request("tool", "vim_command", <<>>, [NoArguments EXCEPT !.command = c]) :
          c \in Commands}
  \cup {Request("tool", "vim_edit", <<>>,
                [startLine |-> k, mode |-> m, lines |-> t, command |-> ""]) :
          k \in StartLines, m \in EditModes, t \in Text(MaxPayload)}
  \cup {Request("resource", "", u, NoArguments) : u \in Uris}

NoResponse == [error |-> "", text |-> <<>>]

NoRead == [valid |-> FALSE, kind |-> "", text |-> <<>>]

IdleSlot ==
  [pc       |-> "idle",
   req      |-> Request("", "", <<>>, NoArguments),
   op       |-> "",          \* the bridge operation the handler invoked
   calls    |-> <<>>,        \* every bridge operation invoked for the request
   args     |-> <<>>,        \* the arguments the bridge operation was given
   handle   |-> 0,           \* the connection handle the operation uses
   sets     |-> 0,           \* set-range calls issued for the request
   snapshot |-> <<>>,        \* the snapshot a buffer read was given
   dirty    |-> FALSE,       \* the buffer was mutated after the response was made
   resp     |-> NoResponse]

InitialBuffers ==
  UNION {[1..n -> LineText(1)] : n \in 1..2}

Init ==
  /\ buffer \in InitialBuffers
  /\ reachable \in BOOLEAN
  /\ conn = "none"
  /\ attempts = 0
  /\ handles = 0
  /\ slots = [s \in Slots |-> IdleSlot]
  /\ prevRead = NoRead
  /\ before = buffer

BridgeOps == {"getBufferContents", "sendCommand", "getNeovimStatus", "editLines"}

\* The handler's wrapper of the bridge operation of slot s.
Handler(s, error, value) ==
  CASE slots[s].req.kind = "resource"      -> ReadResource(error, value)
    [] slots[s].op = "getBufferContents"   -> handleBuffer(error, value)
    [] slots[s].op = "sendCommand"         -> handleCommand(error, value)
    [] slots[s].op = "getNeovimStatus"     -> handleStatus(error, value)
    [] slots[s].op = "editLines"           -> handleEdit(error, value)

\* The handler of slot s ends with the bridge's result or rejection.
Finish(s, error, value) ==
  [slots EXCEPT ![s].pc = "done", ![s].resp = Handler(s, error, value)]

\* A mutation of the buffer to buf by slot s: the responses already made and
\* the last delivered read no longer show the buffer.
Mutated(s, buf, f) ==
  IF buf = buffer THEN f
  ELSE [t \in Slots |->
          IF t # s /\ f[t].pc = "done" THEN [f[t] EXCEPT !.dirty = TRUE] ELSE f[t]]

ReadAfter(buf) == IF buf = buffer THEN prevRead ELSE NoRead

\* A faulty getConnection that attaches anew whenever no handle is up.
getConnectionEachCall(c, canReach) ==
  IF c # "up"
  THEN [conn      |-> IF canReach THEN "up" ELSE "failed",
        attempted |-> 1,
        created   |-> IF canReach THEN 1 ELSE 0]
  ELSE [conn |-> c, attempted |-> 0, created |-> 0]

\* 4.1 getConnection: the handle is established on the first call, by the one
\* connection attempt of the process; later calls reuse what that call left.
getConnection(c, canReach) ==
  IF c = "none"
  THEN [conn      |-> IF canReach THEN "up" ELSE "failed",
        attempted |-> 1,
        created   |-> IF canReach THEN 1 ELSE 0]
  ELSE [conn |-> c, attempted |-> 0, created |-> 0]

\* ---------------------------------------------------------------- actions

\* The edit asked for would not take the buffer past MaxBuf lines.
WithinBound(buf, arguments) ==
  LET kept == IF arguments.mode = "insert" \/ arguments.startLine > Len(buf)
              THEN Len(buf)
              ELSE IF arguments.startLine < 1 THEN 0 ELSE arguments.startLine - 1
  IN  kept + Len(SplitLines(arguments.lines)) <= MaxBuf

\* The host hands request r to its handler, which runs to its first await:
\* the tool name or the uri selects the bridge operation, or the handler
\* throws.  serial: the host waits for each response before the next request.
Dispatch(s, r, serial) ==
  /\ slots[s].pc = "idle"
  /\ serial => \A t \in Slots : slots[t].pc = "idle"
  /\ (r.kind = "tool" /\ r.name = "vim_edit") => WithinBound(buffer, r.arguments)
  /\ LET route == IF r.kind = "resource" THEN ResourceRoute(r.uri) ELSE ToolRoute(r.name)
         args  == CASE route = "editLines"   -> EditArgs(r.arguments)
                    [] route = "sendCommand" -> [command |-> CommandArg(r.arguments)]
                    [] OTHER                 -> <<>>
     IN  slots' = [slots EXCEPT ![s] =
           IF route \in BridgeOps
           THEN [IdleSlot EXCEPT !.pc = "connect", !.req = r, !.op = route,
                                 !.calls = <<route>>, !.args = args]
           ELSE [IdleSlot EXCEPT !.pc = "done", !.req = r, !.resp = Thrown(route)]]
  /\ before' = buffer
  /\ UNCHANGED <<buffer, reachable, conn, attempts, handles, prevRead>>

\* Every bridge operation first obtains the connection.
GetConnection(s) ==
  /\ slots[s].pc = "connect"
  /\ LET got == getConnection(conn, reachable)
     IN  /\ conn' = got.conn
         /\ attempts' = attempts + got.attempted
         /\ handles' = handles + got.created
         /\ slots' = IF got.conn = "up"
                     THEN [slots EXCEPT ![s].pc = "call",
                                        ![s].handle = handles + got.created]
                     ELSE Finish(s, "ConnectionError", <<>>)
  /\ UNCHANGED <<buffer, reachable, prevRead, before>>

\* getBufferContents: one line-range get.
GetLines(s) ==
  /\ slots[s].pc = "call" /\ slots[s].op = "getBufferContents"
  /\ slots' = IF conn = "up"
              THEN LET snap == getBufferContents(EditorGetLines(buffer))
                   IN  [Finish(s, "", snap) EXCEPT ![s].snapshot = snap]
              ELSE Finish(s, "ConnectionError", <<>>)
  /\ UNCHANGED <<buffer, reachable, conn, attempts, handles, prevRead, before>>

\* sendCommand: the command is fed to the editor as given.
FeedInput(s) ==
  /\ slots[s].pc = "call" /\ slots[s].op = "sendCommand"
  /\ \/ /\ conn # "up"
        /\ slots' = Finish(s, "ConnectionError", <<>>)
        /\ UNCHANGED <<buffer, prevRead>>
     \/ /\ conn = "up"
        /\ slots' = Finish(s, "EditorRejectedInputError", <<>>)
        /\ UNCHANGED <<buffer, prevRead>>
     \/ /\ conn = "up"
        /\ \E buf \in EditorReactions(buffer) :
             /\ buffer' = buf
             /\ prevRead' = ReadAfter(buf)
             /\ slots' = Mutated(s, buf, [slots EXCEPT ![s].pc = "call2"])
  /\ UNCHANGED <<reachable, conn, attempts, handles, before>>

\* sendCommand: the status summary queried after the feed.
QueryStatus(s) ==
  /\ slots[s].pc = "call2" /\ slots[s].op = "sendCommand"
  /\ slots' = IF conn = "up"
              THEN Finish(s, "", CommandSummary(buffer))
              ELSE Finish(s, "ConnectionError", <<>>)
  /\ UNCHANGED <<buffer, reachable, conn, attempts, handles, prevRead, before>>

\* getNeovimStatus: the constituent queries, merged.
GetStatus(s) ==
  /\ slots[s].pc = "call" /\ slots[s].op = "getNeovimStatus"
  /\ slots' = IF conn = "up"
              THEN Finish(s, "", getNeovimStatus(buffer))
              ELSE Finish(s, "ConnectionError", <<>>)
  /\ UNCHANGED <<buffer, reachable, conn, attempts, handles, prevRead, before>>

\* editLines: startLine is validated against the buffer's last line.
ValidateRange(s) ==
  /\ slots[s].pc = "call" /\ slots[s].op = "editLines"
  /\ slots' = IF conn # "up" THEN Finish(s, "ConnectionError", <<>>)
              ELSE IF ValidRange(slots[s].args.startLine, slots[s].args.mode, Len(buffer))
              THEN [slots EXCEPT ![s].pc = "call2"]
              ELSE Finish(s, "InvalidRangeError", <<>>)
  /\ UNCHANGED <<buffer, reachable, conn, attempts, handles, prevRead, before>>

\* editLines: the mutation, one set-range call.  The editor refuses a range
\* that starts past the end of the buffer as it is now.
SetLines(s) ==
  /\ slots[s].pc = "call2" /\ slots[s].op = "editLines"
  /\ LET a     == slots[s].args
         T     == SplitLines(a.lines)
         range == EditRange(a.startLine, a.mode, Len(buffer))
         buf   == EditorSetLines(buffer, range.first, range.last, T)
     IN  IF conn # "up"
         THEN /\ slots' = Finish(s, "ConnectionError", <<>>)
              /\ UNCHANGED <<buffer, prevRead>>
         ELSE IF range.first > Len(buffer)
         THEN /\ slots' = Finish(s, "InvalidRangeError", <<>>)
              /\ UNCHANGED <<buffer, prevRead>>
         ELSE /\ Len(buf) <= MaxBuf
              /\ buffer' = buf
              /\ prevRead' = ReadAfter(buf)
              /\ slots' = Mutated(s, buf,
                   [Finish(s, "", EditConfirmation(a.startLine, a.mode))
                      EXCEPT ![s].sets = @ + 1])
  /\ UNCHANGED <<reachable, conn, attempts, handles, before>>

\* The response reaches the host; a successful buffer read that still shows
\* the buffer becomes the last read.
Deliver(s) ==
  /\ slots[s].pc = "done"
  /\ prevRead' =
       IF slots[s].op = "getBufferContents" /\ slots[s].resp.error = ""
       THEN [valid |-> ~slots[s].dirty, kind |-> slots[s].req.kind,
             text |-> IF slots[s].dirty THEN <<>> ELSE slots[s].resp.text]
       ELSE prevRead
  /\ slots' = [slots EXCEPT ![s] = IdleSlot]
  /\ before' = buffer
  /\ UNCHANGED <<buffer, reachable, conn, attempts, handles>>

\* The editor process goes away: the channel is unreachable, a handle held
\* is broken.
EditorGoesAway ==
  /\ reachable
  /\ reachable' = FALSE
  /\ conn' = IF conn = "up" THEN "broken" ELSE conn
  /\ UNCHANGED <<buffer, attempts, handles, slots, prevRead, before>>

\* An editor is reachable again; a broken handle stays broken.
EditorComesBack ==
  /\ ~reachable
  /\ reachable' = TRUE
  /\ UNCHANGED <<buffer, conn, attempts, handles, slots, prevRead, before>>

Step(s) ==
  \/ GetConnection(s)
  \/ GetLines(s)
  \/ FeedInput(s)
  \/ QueryStatus(s)
  \/ GetStatus(s)
  \/ ValidateRange(s)
  \/ SetLines(s)
  \/ Deliver(s)

\* One agent drives the editor through one channel, a request at a time
\* (spec.md 5).
Next ==
  \/ \E r \in Requests : Dispatch("r1", r, TRUE)
  \/ \E s \in Slots : Step(s)
  \/ EditorGoesAway
  \/ EditorComesBack

Spec == Init /\ [][Next]_vars

\* The host dispatches requests without waiting for the responses: reads and
\* edits race against the same buffer (spec.md 5).
ConcurrentRequests ==
  {r \in Requests :
     \/ r.kind = "tool" /\ r.name = "vim_buffer"
     \/ r.kind = "resource" /\ r.uri = NvimScheme \o <<"s">>
     \/ /\ r.kind = "tool" /\ r.name = "vim_edit"
        /\ r.arguments.startLine \in 1..2
        /\ r.arguments.lines \in {<<>>, <<"a", NL>>}}

NextConcurrent ==
  \/ \E s \in Slots, r \in ConcurrentRequests : Dispatch(s, r, FALSE)
  \/ \E s \in Slots :
        \/ GetConnection(s)
        \/ GetLines(s)
        \/ ValidateRange(s)
        \/ SetLines(s)
        \/ Deliver(s)
  \/ EditorGoesAway

SpecConcurrent == Init /\ [][NextConcurrent]_vars

\* ------------------------------------------------------- claims: helpers

\* The request of slot s is a vim_edit call that has been answered.
EditDone(s) ==
  /\ slots[s].pc = "done"
  /\ slots[s].req.kind = "tool"
  /\ slots[s].req.name = "vim_edit"

\* The request of slot s is a buffer read (tool or resource) answered with
\* a result.
ReadDone(s) ==
  /\ slots[s].pc = "done"
  /\ slots[s].op = "getBufferContents"
  /\ slots[s].resp.error = ""

StartLineOf(s) == slots[s].req.arguments.startLine

ModeOf(s) == slots[s].req.arguments.mode

PayloadOf(s) == SplitLines(slots[s].req.arguments.lines)

\* B[1..k-1] ++ T ++ B[k..lastLine]
Spliced(B, k, T) == SubSeq(B, 1, k - 1) \o T \o SubSeq(B, k, Len(B))

\* B[1..k-1] ++ T
TailReplaced(B, k, T) == SubSeq(B, 1, k - 1) \o T

\* ------------------------------------------------------------------- C1

\* C1: a vim_edit insert of an N-line payload T at a startLine k in
\* [1, lastLine+1], answered over a working channel, succeeds and leaves the
\* buffer equal to B[1..k-1] ++ T ++ B[k..lastLine]: N lines longer, the
\* lines before k untouched, no line removed, and a read of the buffer shows
\* T at lines k .. k+N-1.
InsertSplices ==
  \A s \in Slots :
    (/\ EditDone(s)
     /\ ModeOf(s) = "insert"
     /\ StartLineOf(s) \in 1..(Len(before) + 1)
     /\ slots[s].resp.error # "ConnectionError")
    => LET k == StartLineOf(s)
           T == PayloadOf(s)
       IN  /\ slots[s].resp.error = ""
           /\ buffer = Spliced(before, k, T)
           /\ Len(buffer) = Len(before) + Len(T)
           /\ \A i \in 1..(k - 1) : buffer[i] = before[i]
           /\ \A i \in k..Len(before) : buffer[i + Len(T)] = before[i]
           /\ \A i \in 1..Len(T) :
                getBufferContents(EditorGetLines(buffer))[k + i - 1] = <<k + i - 1, T[i]>>

\* An insert of one line between the two lines of a buffer has been answered.
InsertSplicesWitness ==
  \E s \in Slots :
    /\ EditDone(s) /\ ModeOf(s) = "insert" /\ slots[s].resp.error = ""
    /\ Len(before) = 2 /\ StartLineOf(s) = 2 /\ Len(PayloadOf(s)) = 1
    /\ before[1] # before[2]

\* ------------------------------------------------------------------- C2

\* C2 as stated: a vim_edit replace of an N-line payload T at a startLine k
\* in [1, lastLine] leaves the buffer equal to B[1..k-1] ++ T.
ReplaceTailExact ==
  \A s \in Slots :
    (/\ EditDone(s)
     /\ ModeOf(s) = "replace"
     /\ StartLineOf(s) \in 1..Len(before)
     /\ slots[s].resp.error # "ConnectionError")
    => /\ slots[s].resp.error = ""
       /\ buffer = TailReplaced(before, StartLineOf(s), PayloadOf(s))

\* C2 as amended: a vim_edit replace of an N-line payload T at a startLine k
\* in [1, lastLine], answered over a working channel, succeeds and leaves
\* the buffer equal to B[1..k-1] ++ T, whether N is more than, equal to or
\* less than lastLine-k+1; except that for k = 1 and N = 0, where nothing
\* would be left, the buffer is one empty line.
ReplaceTailOrOneEmptyLine ==
  \A s \in Slots :
    (/\ EditDone(s)
     /\ ModeOf(s) = "replace"
     /\ StartLineOf(s) \in 1..Len(before)
     /\ slots[s].resp.error # "ConnectionError")
    => LET k == StartLineOf(s)
           T == PayloadOf(s)
       IN  /\ slots[s].resp.error = ""
           /\ buffer = IF k = 1 /\ Len(T) = 0 THEN << <<>> >>
                       ELSE TailReplaced(before, k, T)

\* A replace of the last two of three lines by one line has been answered.
ReplaceTailWitness ==
  \E s \in Slots :
    /\ EditDone(s) /\ ModeOf(s) = "replace" /\ slots[s].resp.error = ""
    /\ Len(before) = 3 /\ StartLineOf(s) = 2 /\ Len(PayloadOf(s)) = 1
    /\ Len(buffer) = 2

\* ------------------------------------------------------------------- C3

\* The startLine of the vim_edit request of slot s is outside the range its
\* mode allows for the buffer B.
OutOfRange(s, B) ==
  \/ StartLineOf(s) < 1
  \/ ModeOf(s) = "insert" /\ StartLineOf(s) > Len(B) + 1
  \/ ModeOf(s) = "replace" /\ StartLineOf(s) > Len(B)

\* C3: a vim_edit request whose startLine is below 1, above lastLine+1 for
\* insert or above lastLine for replace never succeeds: it fails with
\* InvalidRangeError (with ConnectionError only when the connection is not
\* up), no set-range call is issued and the buffer is as it was.
InvalidRangeRejected ==
  \A s \in Slots :
    (EditDone(s) /\ OutOfRange(s, before))
    => /\ slots[s].resp.error \in {"InvalidRangeError", "ConnectionError"}
       /\ slots[s].resp.error = "ConnectionError" => conn # "up"
       /\ slots[s].sets = 0
       /\ buffer = before

\* A replace at lastLine+1, which an insert would accept, has been refused.
InvalidRangeWitness ==
  \E s \in Slots :
    /\ EditDone(s) /\ ModeOf(s) = "replace"
    /\ StartLineOf(s) = Len(before) + 1
    /\ Len(PayloadOf(s)) = 2
    /\ slots[s].resp.error = "InvalidRangeError"

\* ------------------------------------------------------------------- C4

\* The entries of snapshot snap are numbered 1..n without a gap, n >= 1.
Contiguous(snap) ==
  /\ Len(snap) >= 1
  /\ \A i \in 1..Len(snap) : snap[i][1] = i

\* C4: in every reachable state, after any edits (empty payloads included),
\* commands and reads, the snapshot a buffer read is given, and the one a
\* read would be given now, number their lines 1..n without a gap, n >= 1;
\* a buffer with no text reads as exactly one empty line.
SnapshotContiguous ==
  /\ Contiguous(getBufferContents(EditorGetLines(buffer)))
  /\ Len(getBufferContents(EditorGetLines(buffer))) = Len(buffer)
  /\ \A s \in Slots :
       ReadDone(s) =>
         /\ Contiguous(slots[s].snapshot)
         /\ before = << <<>> >> => slots[s].snapshot = << <<1, <<>> >> >>

\* A replace of both lines of a buffer by an empty payload has been
\* answered, and a read would now be given one empty line.
SnapshotContiguousWitness ==
  \E s \in Slots :
    /\ EditDone(s) /\ ModeOf(s) = "replace" /\ slots[s].resp.error = ""
    /\ StartLineOf(s) = 1 /\ Len(PayloadOf(s)) = 0
    /\ Len(before) = 2
    /\ getBufferContents(EditorGetLines(buffer)) = << <<1, <<>> >> >>

\* ------------------------------------------------------------------- C5

\* The text the handler of the read of slot s makes of snapshot snap.
TextOf(s, snap) ==
  IF slots[s].req.kind = "resource" THEN ResourceText(snap) ELSE BufferText(snap)

\* C5: a buffer read (vim_buffer or the nvim:// resource) is computed from
\* the editor's buffer as it is, leaves the buffer as it was, and returns
\* what the last read returned when no mutation came between the two.
ReadIdempotent ==
  \A s \in Slots :
    ReadDone(s) =>
      /\ buffer = before
      /\ slots[s].snapshot = getBufferContents(EditorGetLines(buffer))
      /\ slots[s].resp.text = TextOf(s, slots[s].snapshot)
      /\ prevRead.valid => slots[s].resp.text = prevRead.text

\* A second read of a buffer of two lines, no mutation since the first.
ReadIdempotentWitness ==
  \E s \in Slots :
    /\ ReadDone(s)
    /\ prevRead.valid
    /\ prevRead.kind = slots[s].req.kind
    /\ Len(buffer) = 2

\* ------------------------------------------------------------------- C6

CommandFailureReported ==
  [][\A s \in Slots :
       (/\ slots[s].op = "sendCommand"
        /\ slots[s].pc \in {"connect", "call", "call2"}
        /\ slots'[s] # slots[s]
        /\ conn' # "up")
       => /\ slots'[s].pc = "done"
          /\ slots'[s].resp = [error |-> "ConnectionError", text |-> <<>>]]_vars

\* A vim_command sent while no editor is reachable has been answered with
\* ConnectionError.
CommandFailureWitness ==
  \E s \in Slots :
    /\ slots[s].pc = "done"
    /\ slots[s].op = "sendCommand"
    /\ slots[s].resp.error = "ConnectionError"
    /\ conn = "failed"
    /\ ~reachable

\* ------------------------------------------------------------------- C8

\* The lines of buffer B in ascending order, each as "N: text", joined by
\* line separators.
NumberedLines(B) ==
  JoinNL([i \in 1..Len(B) |-> Digits(i) \o <<":", " ">> \o B[i]])

\* C8: the nvim:// resource and the vim_buffer tool return the same text
\* for the same buffer: its lines in ascending order, each as "N: text",
\* joined by line separators.
ResourceMatchesTool ==
  \A s \in Slots :
    ReadDone(s) =>
      /\ slots[s].resp.text = NumberedLines(buffer)
      /\ (prevRead.valid /\ prevRead.kind # slots[s].req.kind)
           => slots[s].resp.text = prevRead.text

\* The resource has been read after the tool, on a buffer of two lines with
\* text, no mutation between.
ResourceMatchesToolWitness ==
  \E s \in Slots :
    /\ ReadDone(s)
    /\ slots[s].req.kind = "resource"
    /\ prevRead.valid /\ prevRead.kind = "tool"
    /\ Len(buffer) = 2 /\ buffer[2] # <<>>

\* ------------------------------------------------------------------- C9

\* The buffer the whole edit of slot s makes of buffer B.
WholeEdit(s, B) ==
  LET k == slots[s].args.startLine
      T == SplitLines(slots[s].args.lines)
      whole == IF slots[s].args.mode = "insert" THEN Spliced(B, k, T)
               ELSE TailReplaced(B, k, T)
  IN  IF Len(whole) = 0 THEN << <<>> >> ELSE whole

\* C9: with requests in flight at once, every change of the buffer is the
\* whole edit of one vim_edit request, made by its one set-range call, which
\* also ends the request; and every read is given the buffer of one state.
\* So no state and no snapshot shows part of a payload or part of a removal.
EditAtomic ==
  /\ [](\A s \in Slots :
          /\ slots[s].sets <= 1
          /\ (slots[s].pc = "done" /\ slots[s].op = "editLines"
                /\ slots[s].resp.error = "") => slots[s].sets = 1)
  /\ [][/\ buffer' # buffer =>
             \E s \in Slots :
               /\ slots[s].op = "editLines" /\ slots[s].pc = "call2"
               /\ slots'[s].pc = "done" /\ slots'[s].resp.error = ""
               /\ slots'[s].sets = 1
               /\ buffer' = WholeEdit(s, buffer)
        /\ \A s \in Slots :
             (slots[s].pc = "call" /\ slots'[s].pc = "done"
                /\ slots'[s].op = "getBufferContents" /\ slots'[s].resp.error = "")
             => /\ buffer' = buffer
                /\ slots'[s].snapshot = getBufferContents(buffer)]_vars

\* An edit with a payload of two lines has changed the buffer between the
\* answer to a read and its delivery, both requests in flight at once.
EditAtomicWitness ==
  \E s, t \in Slots :
    /\ s # t
    /\ slots[s].pc = "done" /\ slots[s].op = "editLines"
    /\ slots[s].resp.error = "" /\ slots[s].sets = 1
    /\ Len(SplitLines(slots[s].args.lines)) = 2
    /\ ReadDone(t) /\ slots[t].dirty

\* ------------------------------------------------------------------ C10

\* C10: a tool call invokes exactly the one bridge operation its tool name
\* stands for; a call of any other tool fails with "Unknown tool" and a
\* read of a resource whose uri does not start with "nvim://" fails with
\* "Invalid resource URI", both without a bridge operation and with the
\* buffer as it was.
RoutedToOneOperation ==
  \A s \in Slots :
    LET r == slots[s].req
        refused(message) ==
          /\ slots[s].calls = <<>>
          /\ slots[s].pc = "done"
          /\ slots[s].resp = [error |-> message, text |-> <<>>]
          /\ slots[s].handle = 0 /\ slots[s].sets = 0
          /\ buffer = before
    IN  /\ (r.kind = "tool" /\ r.name = "vim_buffer")
             => slots[s].calls = <<"getBufferContents">>
        /\ (r.kind = "tool" /\ r.name = "vim_command")
             => slots[s].calls = <<"sendCommand">>
        /\ (r.kind = "tool" /\ r.name = "vim_status")
             => slots[s].calls = <<"getNeovimStatus">>
        /\ (r.kind = "tool" /\ r.name = "vim_edit")
             => slots[s].calls = <<"editLines">>
        /\ (r.kind = "tool"
              /\ r.name \notin {"vim_buffer", "vim_command", "vim_status", "vim_edit"})
             => refused("Unknown tool")
        /\ (r.kind = "resource" /\ r.uri \in {NvimScheme, NvimScheme \o <<"s">>})
             => slots[s].calls = <<"getBufferContents">>
        /\ (r.kind = "resource" /\ r.uri \notin {NvimScheme, NvimScheme \o <<"s">>})
             => refused("Invalid resource URI")

\* A read of "nvim:/s", one slash short of the scheme, has been refused.
RoutedWitness ==
  \E s \in Slots :
    /\ slots[s].pc = "done"
    /\ slots[s].req.kind = "resource"
    /\ slots[s].req.uri = <<"n", "v", "i", "m", ":", "/", "s">>
    /\ slots[s].resp.error = "Invalid resource URI"
    /\ conn = "up"

====
